---------------------------- MODULE Spec2Model ----------------------------
(***************************************************************************)
(* A model of hist_analyze.py: the bash-history tokenizer                  *)
(* (process_bash_history), the keyword classifier (categorize_command),    *)
(* the frequency ranking (Counter.most_common as used by print_statistics  *)
(* and generate_visualizations) and the control flow of main.              *)
(*                                                                         *)
(* Python strings are TLA+ strings; a character is a string of length 1.   *)
(***************************************************************************)
EXTENDS Integers, Sequences, FiniteSets, Bags, TLC

VARIABLES
    pc,            \* position in the run
    history_text,  \* the raw history text handed to process_bash_history
    args,          \* the parsed command line of main
    commands,      \* first result of process_bash_history
    words,         \* second result of process_bash_history
    categories,    \* [categorize_command(cmd) for cmd in commands], in a 0/1-length box
    report,        \* what print_statistics printed (sequence of documents)
    figure,        \* what generate_visualizations drew (sequence of figures)
    outcome,       \* "running", "exit 0", "exit 1" or "ZeroDivisionError"
    recommands,    \* commands of the second tokenizer pass
    rewords,       \* words of the second tokenizer pass
    cmd,           \* the argument of categorize_command
    label          \* its result, in a 0/1-length box

vars == <<pc, history_text, args, commands, words, categories, report, figure,
          outcome, recommands, rewords, cmd, label>>

-----------------------------------------------------------------------------
(* Bounds of the model *)

\* lines in a history text of the main run
MaxLines == 3
\* fragments concatenated into a history text of the tokenizer specification
MaxFrags == 4
\* arguments following the command word of a classified command
MaxArgs == 1

-----------------------------------------------------------------------------
(* Python string primitives *)

Ch(s, i) == SubSeq(s, i, i)

Whitespace == {" ", "\t", "\n", "\r", "\f"}
DigitChars == {"0", "1", "2", "3", "4", "5", "6", "7", "8", "9"}
QuoteChars == {"\"", "'"}

\* the lowercase of each uppercase letter
LowerOf ==
    [A |-> "a", B |-> "b", C |-> "c", D |-> "d", E |-> "e", F |-> "f",
     G |-> "g", H |-> "h", I |-> "i", J |-> "j", K |-> "k", L |-> "l",
     M |-> "m", N |-> "n", O |-> "o", P |-> "p", Q |-> "q", R |-> "r",
     S |-> "s", T |-> "t", U |-> "u", V |-> "v", W |-> "w", X |-> "x",
     Y |-> "y", Z |-> "z"]

\* \s of the regular expressions, the characters str.strip() removes
IsSpace(c) == c \in Whitespace

\* \d of the regular expressions
IsDigitChar(c) == c \in DigitChars

LowerChar(c) == IF c \in DOMAIN LowerOf THEN LowerOf[c] ELSE c

\* str.lower()
RECURSIVE LowerFrom(_, _)
LowerFrom(s, i) ==
    IF i > Len(s) THEN "" ELSE LowerChar(Ch(s, i)) \o LowerFrom(s, i + 1)

Lower(s) == LowerFrom(s, 1)

\* str.isdigit()
IsDigit(s) == s # "" /\ \A i \in 1..Len(s) : IsDigitChar(Ch(s, i))

\* str.startswith(p)
StartsWith(s, p) == Len(s) >= Len(p) /\ SubSeq(s, 1, Len(p)) = p

\* str.strip(chars): the first and the last position that stay
RECURSIVE FirstKept(_, _, _)
FirstKept(s, i, chars) ==
    IF i <= Len(s) /\ Ch(s, i) \in chars THEN FirstKept(s, i + 1, chars) ELSE i

RECURSIVE LastKept(_, _, _, _)
LastKept(s, from, j, chars) ==
    IF j >= from /\ Ch(s, j) \in chars THEN LastKept(s, from, j - 1, chars) ELSE j

StripChars(s, chars) ==
    LET i == FirstKept(s, 1, chars)
    IN  SubSeq(s, i, LastKept(s, i, Len(s), chars))

\* str.strip()
Strip(s) == StripChars(s, Whitespace)

\* str.strip('"\'')
StripQuotes(s) == StripChars(s, QuoteChars)

\* str.split('\n'): the pieces of s from position start on, with position i
\* the next to look at
RECURSIVE SplitFrom(_, _, _)
SplitFrom(s, start, i) ==
    IF i > Len(s) THEN <<SubSeq(s, start, Len(s))>>
    ELSE IF Ch(s, i) = "\n"
    THEN <<SubSeq(s, start, i - 1)>> \o SplitFrom(s, i + 1, i + 1)
    ELSE SplitFrom(s, start, i + 1)

SplitLines(s) == SplitFrom(s, 1, 1)

\* '\n'.join(seq)
RECURSIVE JoinLines(_)
JoinLines(seq) ==
    IF seq = <<>> THEN ""
    ELSE IF Len(seq) = 1 THEN seq[1]
    ELSE seq[1] \o "\n" \o JoinLines(Tail(seq))

-----------------------------------------------------------------------------
(* process_bash_history *)

\* length of the match of ^\s*\d+\s+ at the start of line, 0 when there is none
RECURSIVE SpanWhile(_, _, _)
SpanWhile(s, i, digit) ==
    IF i <= Len(s) /\ (IF digit THEN IsDigitChar(Ch(s, i)) ELSE IsSpace(Ch(s, i)))
    THEN SpanWhile(s, i + 1, digit)
    ELSE i

IndexPrefixLen(line) ==
    LET d  == SpanWhile(line, 1, FALSE)
        w  == SpanWhile(line, d, TRUE)
        e  == SpanWhile(line, w, FALSE)
    IN  IF w > d /\ e > w THEN e - 1 ELSE 0

\* re.match(r'^#\d+', line)
IsTimestampLine(line) ==
    Len(line) >= 2 /\ Ch(line, 1) = "#" /\ IsDigitChar(Ch(line, 2))

\* lines = [line.strip() for line in history_text.split('\n') if line.strip()]
StrippedLines(text) ==
    LET raw == SplitLines(text)
        kept == SelectSeq(raw, LAMBDA l : Strip(l) # "")
    IN  [i \in 1..Len(kept) |-> Strip(kept[i])]

\* the loop of lines 40-48
RECURSIVE ExtractCommands(_)
ExtractCommands(lines) ==
    IF lines = <<>> THEN <<>>
    ELSE LET line == Head(lines)
             n == IndexPrefixLen(line)
         IN  IF n > 0
             THEN <<SubSeq(line, n + 1, Len(line))>> \o ExtractCommands(Tail(lines))
             ELSE IF IsTimestampLine(line)
             THEN ExtractCommands(Tail(lines))
             ELSE <<line>> \o ExtractCommands(Tail(lines))

\* "(?:\\.|[^"])*" from position i, just after the opening quote: the position
\* after the closing quote on the first successful path of the backtracking
\* matcher, 0 when every path fails
RECURSIVE QuotedEnd(_, _)
QuotedEnd(s, i) ==
    IF i > Len(s) THEN 0
    ELSE IF Ch(s, i) = "\\"
    THEN LET viaEscape == IF i + 1 <= Len(s) /\ Ch(s, i + 1) # "\n"
                          THEN QuotedEnd(s, i + 2) ELSE 0
         IN  IF viaEscape # 0 THEN viaEscape ELSE QuotedEnd(s, i + 1)
    ELSE IF Ch(s, i) # "\""
    THEN QuotedEnd(s, i + 1)
    ELSE i + 1

\* (?:[^\s,"]|"...")+ from position i, greedy: the position after the match
\* (i itself when nothing matches)
RECURSIVE TokenEnd(_, _)
TokenEnd(s, i) ==
    IF i > Len(s) THEN i
    ELSE IF Ch(s, i) = "\""
    THEN LET e == QuotedEnd(s, i + 1) IN IF e = 0 THEN i ELSE TokenEnd(s, e)
    ELSE IF IsSpace(Ch(s, i)) \/ Ch(s, i) = ","
    THEN i
    ELSE TokenEnd(s, i + 1)

\* re.findall(r'(?:[^\s,"]|"(?:\\.|[^"])*")+', cmd), scanning from position i
RECURSIVE FindTokens(_, _)
FindTokens(s, i) ==
    IF i > Len(s) THEN <<>>
    ELSE LET e == TokenEnd(s, i)
         IN  IF e = i THEN FindTokens(s, i + 1)
             ELSE <<SubSeq(s, i, e - 1)>> \o FindTokens(s, e)

\* token.strip('"\'').lower(), with the lowercasing left out
CleanTokenNoLower(token) == StripQuotes(token)

\* token = token.strip('"\'').lower()
CleanToken(token) == Lower(StripQuotes(token))

\* the inner loop of lines 53-58 over the tokens of one command
RECURSIVE KeepTokens(_)
KeepTokens(tokens) ==
    IF tokens = <<>> THEN <<>>
    ELSE LET token == Head(tokens)
             clean == CleanToken(token)
         IN  IF StartsWith(token, "-")
             THEN KeepTokens(Tail(tokens))
             ELSE IF clean # "" /\ ~IsDigit(clean)
             THEN <<clean>> \o KeepTokens(Tail(tokens))
             ELSE KeepTokens(Tail(tokens))

\* the loop of lines 50-58
RECURSIVE ExtractWords(_)
ExtractWords(cmds) ==
    IF cmds = <<>> THEN <<>>
    ELSE KeepTokens(FindTokens(Head(cmds), 1)) \o ExtractWords(Tail(cmds))

\* process_bash_history(history_text) = <<commands, words>>
process_bash_history(text) ==
    IF text = "" THEN <<<<>>, <<>>>>
    ELSE LET cs == ExtractCommands(StrippedLines(text))
         IN  <<cs, ExtractWords(cs)>>

-----------------------------------------------------------------------------
(* categorize_command *)

\* lines 67-67
nav_commands ==
    <<"cd ", "ls", "pwd", "dir", "pushd", "popd", "ll", "tree", "exa", "fd",
      "ranger", "nnn", "lf">>

\* lines 72-73
file_ops ==
    <<"cp ", "mv ", "rm ", "mkdir", "touch", "chmod", "chown", "ln ",
      "rsync", "tar ", "gzip", "gunzip", "zip", "unzip", "7z", "rename",
      "trash", "shred">>

\* lines 78-79
editors ==
    <<"vim ", "nano ", "emacs", "code ", "subl ", "gedit", "pico", "vi",
      "micro", "kate", "atom", "neovim", "nano", "ed", "sed ", "awk ">>

\* lines 84-84
vcs ==
    <<"git ", "hg ", "svn ", "fossil", "bzr", "cvs", "darcs", "git-lfs",
      "git-flow">>

\* lines 89-90
package_managers ==
    <<"apt", "yum", "dnf", "pacman", "brew", "pip ", "npm ", "snap",
      "flatpak", "zypper", "port", "apk", "dpkg", "rpm", "gem", "cargo",
      "go ", "dotnet">>

\* lines 95-96
system_monitors ==
    <<"top", "htop", "ps ", "kill", "df ", "du ", "free", "btop", "glances",
      "nmon", "iotop", "iftop", "nethogs", "vmstat", "iostat", "dstat",
      "sar", "mpstat", "pidstat">>

\* lines 101-102
network_commands ==
    <<"ssh ", "scp ", "ping", "curl", "wget", "ifconfig", "ip ", "sftp",
      "ftp", "telnet", "netstat", "ss", "traceroute", "tracepath", "mtr",
      "dig", "nslookup", "nmcli", "iwconfig">>

\* lines 107-127, in the dictionary's insertion order
languages ==
    << [lang |-> "Python",
        keywords |-> <<"python", "pip", "py ", "python3", "python2", "pylint", "pyflakes", "mypy", "black">>],
       [lang |-> "Java",
        keywords |-> <<"java ", "javac", "mvn ", "gradle", "ant ", "jbang", "groovy">>],
       [lang |-> "Rust",
        keywords |-> <<"rustc", "cargo", "rustup", "rustfmt", "clippy">>],
       [lang |-> "C/C++",
        keywords |-> <<"gcc", "g++", "clang", "make ", "cmake", "ninja", "gdb", "lldb", "valgrind", "cpp">>],
       [lang |-> "C#",
        keywords |-> <<"dotnet", "mono", "msbuild", "csc">>],
       [lang |-> "JavaScript",
        keywords |-> <<"node ", "npm ", "yarn", "deno", "tsc", "bun">>],
       [lang |-> "Go",
        keywords |-> <<"go ", "gofmt", "golangci-lint">>],
       [lang |-> "Ruby",
        keywords |-> <<"ruby ", "gem ", "rake", "bundle">>],
       [lang |-> "PHP",
        keywords |-> <<"php ", "composer", "phpunit">>],
       [lang |-> "Shell",
        keywords |-> <<"bash ", "sh ", "zsh ", "fish ", "dash", "ksh">>],
       [lang |-> "Assembly",
        keywords |-> <<"as ", "nasm", "yasm", "objdump", "gdb">>],
       [lang |-> "R",
        keywords |-> <<"r ", "rscript", "radian">>],
       [lang |-> "Perl",
        keywords |-> <<"perl ", "cpan">>],
       [lang |-> "Haskell",
        keywords |-> <<"ghc", "ghci", "stack", "cabal">>],
       [lang |-> "Lua",
        keywords |-> <<"lua ", "luac">>],
       [lang |-> "Dart",
        keywords |-> <<"dart ", "flutter">>],
       [lang |-> "Scala",
        keywords |-> <<"scala ", "scalac">>],
       [lang |-> "Kotlin",
        keywords |-> <<"kotlin", "kotlinc">>],
       [lang |-> "Swift",
        keywords |-> <<"swift ", "swiftc">>] >>

\* lines 134-135
databases ==
    <<"mysql", "psql", "sqlite3", "mongo", "redis-cli", "sqlcmd",
      "clickhouse-client", "influx", "cqlsh", "neo4j", "arangosh",
      "cockroach sql">>

\* lines 140-141
containers ==
    <<"docker ", "podman", "kubectl", "oc ", "ctr", "nerdctl", "lxc", "lxd",
      "vagrant", "virsh", "qemu", "lima", "colima">>

\* lines 146-147
shell_builtins ==
    <<"export", "source", "alias", "echo", "printf", "read", "set", "unset",
      "type", "hash", "history", "fc", "jobs", "bg", "fg", "wait", "times",
      "trap">>

\* every non-empty substring of s: x in s is membership in this set
Substrings(s) ==
    UNION {{SubSeq(s, i, j) : j \in i..Len(s)} : i \in 1..Len(s)}

\* any(x in cmd_lower for x in keywords), given the substrings of cmd_lower
AnyIn(keywords, substrings) ==
    \E i \in 1..Len(keywords) : keywords[i] \in substrings

\* for lang, keywords in languages.items(): the index of the first language
\* with a keyword in cmd_lower, 0 when the loop ends without returning
FirstLanguage(substrings) ==
    IF \E i \in 1..Len(languages) : AnyIn(languages[i].keywords, substrings)
    THEN CHOOSE i \in 1..Len(languages) :
            /\ AnyIn(languages[i].keywords, substrings)
            /\ \A j \in 1..(i - 1) : ~AnyIn(languages[j].keywords, substrings)
    ELSE 0

\* the cascade of lines 66-152 on the lowercased command
CategorizeLowered(cmd_lower) ==
    LET subs == Substrings(cmd_lower)
        lang == FirstLanguage(subs)
    IN  IF AnyIn(nav_commands, subs) THEN "Navigation"
        ELSE IF AnyIn(file_ops, subs) THEN "File Ops"
        ELSE IF AnyIn(editors, subs) THEN "Editors"
        ELSE IF AnyIn(vcs, subs) THEN "Version Ctrl"
        ELSE IF AnyIn(package_managers, subs) THEN "Pkg Mgmt"
        ELSE IF AnyIn(system_monitors, subs) THEN "Sys Monitor"
        ELSE IF AnyIn(network_commands, subs) THEN "Network"
        ELSE IF lang # 0 THEN "Lang: " \o languages[lang].lang
        ELSE IF AnyIn(databases, subs) THEN "Databases"
        ELSE IF AnyIn(containers, subs) THEN "Containers"
        ELSE IF AnyIn(shell_builtins, subs) THEN "Shell Builtins"
        ELSE "Other"

\* categorize_command without cmd.lower()
categorize_command_no_lower(c) == CategorizeLowered(c)

\* categorize_command with the version-control test moved up, right after
\* the navigation test
categorize_command_vcs_first(c) ==
    LET subs == Substrings(Lower(c))
    IN  IF ~AnyIn(nav_commands, subs) /\ AnyIn(vcs, subs)
        THEN "Version Ctrl"
        ELSE CategorizeLowered(Lower(c))

\* cmd_lower = cmd.lower(), then the cascade
categorize_command(c) == CategorizeLowered(Lower(c))

-----------------------------------------------------------------------------
(* collections.Counter as print_statistics and generate_visualizations use *)
(* it: a Counter is the sequence of its (value, count) pairs in insertion  *)
(* order, which is the order of first appearance.                          *)

Occurrences(seq, v) == Cardinality({i \in 1..Len(seq) : seq[i] = v})

\* Counter(seq)
RECURSIVE CounterFrom(_, _, _)
CounterFrom(seq, i, acc) ==
    IF i > Len(seq) THEN acc
    ELSE IF \E k \in 1..Len(acc) : acc[k][1] = seq[i]
    THEN CounterFrom(seq, i + 1, acc)
    ELSE CounterFrom(seq, i + 1, Append(acc, <<seq[i], Occurrences(seq, seq[i])>>))

CounterOf(seq) == CounterFrom(seq, 1, <<>>)

\* a sort that puts a pair before the pairs of equal count that came first
InsertBeforeTies(pair, sorted) ==
    LET before == SelectSeq(sorted, LAMBDA q : q[2] > pair[2])
        after  == SelectSeq(sorted, LAMBDA q : q[2] <= pair[2])
    IN  before \o <<pair>> \o after

\* one step of sorted(items, key=itemgetter(1), reverse=True), which is
\* stable: the pair goes after every pair whose count is not smaller
InsertByCount(pair, sorted) ==
    LET before == SelectSeq(sorted, LAMBDA q : q[2] >= pair[2])
        after  == SelectSeq(sorted, LAMBDA q : q[2] < pair[2])
    IN  before \o <<pair>> \o after

RECURSIVE SortByCount(_, _)
SortByCount(items, sorted) ==
    IF items = <<>> THEN sorted
    ELSE SortByCount(Tail(items), InsertByCount(Head(items), sorted))

\* counter.most_common()
MostCommonAll(counter) == SortByCount(counter, <<>>)

\* counter.most_common(n): heapq.nlargest(n, items, key=itemgetter(1)), the
\* first n of the stable descending sort
MostCommon(counter, n) ==
    LET all == MostCommonAll(counter)
    IN  IF n <= 0 THEN <<>>
        ELSE IF n >= Len(all) THEN all
        ELSE SubSeq(all, 1, n)

-----------------------------------------------------------------------------
(* print_statistics and generate_visualizations *)

\* the literal of most_common(10) on lines 163, 167 and 171
StatsTopN == 10

\* print_statistics(commands, words, category_counts, output_format): what is
\* printed, or the ZeroDivisionError of unique/total with a zero total, which
\* is raised while the document is built, before anything is printed
print_statistics(cmds, wrds, category_counts, output_format) ==
    LET total_commands == Len(cmds)
        unique_commands == Cardinality({cmds[i] : i \in 1..Len(cmds)})
        total_words == Len(wrds)
        unique_words == Cardinality({wrds[i] : i \in 1..Len(wrds)})
        top_commands == MostCommon(CounterOf(cmds), StatsTopN)
        top_words == MostCommon(CounterOf(wrds), StatsTopN)
        top_categories == MostCommon(category_counts, StatsTopN)
        summary == [total_commands |-> total_commands,
                    unique_commands |-> unique_commands,
                    command_variety |-> <<unique_commands, total_commands>>,
                    total_keywords |-> total_words,
                    unique_keywords |-> unique_words,
                    keyword_variety |-> <<unique_words, total_words>>]
    IN  IF total_commands = 0 \/ total_words = 0
        THEN [raised |-> "ZeroDivisionError", printed |-> <<>>]
        ELSE [raised |-> "",
              printed |-> << [format |-> output_format,
                              summary |-> summary,
                              top_commands |-> top_commands,
                              top_words |-> top_words,
                              top_categories |-> top_categories,
                              all_categories |->
                                  IF output_format = "json"
                                  THEN MostCommonAll(category_counts)
                                  ELSE <<>>] >>]

\* [categorize_command(cmd) for cmd in commands]
CategoriesOf(cmds) == [i \in 1..Len(cmds) |-> categorize_command(cmds[i])]

\* the three ranked lists generate_visualizations draws (lines 302-309)
generate_visualizations(cmds, wrds, output_file, top_n) ==
    [category_counts |-> MostCommonAll(CounterOf(CategoriesOf(cmds))),
     word_counts |-> MostCommon(CounterOf(wrds), top_n),
     command_counts |-> MostCommon(CounterOf(cmds), top_n),
     top_n |-> top_n,
     output_file |-> output_file]

-----------------------------------------------------------------------------
(* The tokenizer on its own: one pass over a history text, then a second   *)
(* pass over the extracted commands joined with newlines.                  *)

\* the pieces history texts are built from: an index digit, a blank, a line
\* break, a timestamp marker, a flag dash, a double quote, a comma, a
\* lowercase and an uppercase letter
Frags == {"1", " ", "\n", "#", "-", "\"", ",", "a", "B"}

RECURSIVE TextsOf(_)
TextsOf(n) ==
    IF n = 0 THEN {""}
    ELSE LET shorter == TextsOf(n - 1)
         IN  shorter \cup {t \o f : t \in shorter, f \in Frags}

NoArgs == [top_n |-> 15, json |-> FALSE, quiet |-> FALSE, visualize |-> FALSE,
           output |-> ""]

InitTokenize ==
    /\ pc = "start"
    /\ history_text \in TextsOf(MaxFrags)
    /\ args = NoArgs
    /\ commands = <<>> /\ words = <<>> /\ categories = <<>>
    /\ report = <<>> /\ figure = <<>>
    /\ outcome = "running"
    /\ recommands = <<>> /\ rewords = <<>>
    /\ cmd = "" /\ label = <<>>

Tokenize ==
    /\ pc = "start"
    /\ LET r == process_bash_history(history_text)
       IN  commands' = r[1] /\ words' = r[2]
    /\ pc' = "tokenized"
    /\ UNCHANGED <<history_text, args, categories, report, figure, outcome,
                   recommands, rewords, cmd, label>>

Retokenize ==
    /\ pc = "tokenized"
    /\ LET r == process_bash_history(JoinLines(commands))
       IN  recommands' = r[1] /\ rewords' = r[2]
    /\ pc' = "retokenized"
    /\ UNCHANGED <<history_text, args, commands, words, categories, report,
                   figure, outcome, cmd, label>>

NextTokenize == Tokenize \/ Retokenize

SpecTokenize == InitTokenize /\ [][NextTokenize]_vars

-----------------------------------------------------------------------------
(* Properties of the tokenizer *)

Range(seq) == {seq[i] : i \in 1..Len(seq)}

\* the multiset of the elements of a sequence
BagOfSeq(seq) == [x \in Range(seq) |-> Cardinality({i \in 1..Len(seq) : seq[i] = x})]

HasUpper(s) == \E i \in 1..Len(s) : LowerChar(Ch(s, i)) # Ch(s, i)

GoodToken(w) ==
    /\ w # ""
    /\ Lower(w) = w
    /\ \E i \in 1..Len(w) : ~IsDigitChar(Ch(w, i))

\* C4: every token returned by process_bash_history is non-empty, equal to
\* its own lowercasing, and not made only of digits.
C4_TokensWellFormed ==
    /\ \A i \in 1..Len(words) : GoodToken(words[i])
    /\ \A i \in 1..Len(rewords) : GoodToken(rewords[i])

\* a pass that kept a token written in upper case and dropped an all-digit,
\* an empty-after-stripping and a flag token
C4_Witness ==
    /\ pc = "tokenized"
    /\ words # <<>>
    /\ \E c \in Range(commands) :
          LET raw == FindTokens(c, 1)
          IN  /\ \E t \in Range(raw) : HasUpper(t) /\ ~StartsWith(t, "-")
              /\ \E t \in Range(raw) : IsDigit(StripQuotes(t)) \/ StripQuotes(t) = ""

\* C5: no token returned by process_bash_history starts with '-', also when
\* the dash only becomes leading once the surrounding quotes are stripped.
C5_NoFlagTokens == \A i \in 1..Len(words) : ~StartsWith(words[i], "-")

\* C6: tokenizing the extracted commands joined with newlines yields the same
\* multiset of tokens as the first pass.
C6_Idempotent == pc = "retokenized" => BagOfSeq(rewords) = BagOfSeq(words)

\* '#' followed by digits and nothing else
IsBareTimestamp(line) ==
    /\ Len(line) >= 2
    /\ Ch(line, 1) = "#"
    /\ \A i \in 2..Len(line) : IsDigitChar(Ch(line, i))

\* the per-line map the claim describes, over the lines of the text
RECURSIVE ClaimedCommands(_)
ClaimedCommands(rawlines) ==
    IF rawlines = <<>> THEN <<>>
    ELSE LET line == Strip(Head(rawlines))
             n == IndexPrefixLen(line)
             rest == ClaimedCommands(Tail(rawlines))
         IN  IF line = "" \/ IsBareTimestamp(line) THEN rest
             ELSE IF n > 0 THEN <<SubSeq(line, n + 1, Len(line))>> \o rest
             ELSE <<line>> \o rest

\* C7: blank lines and bare timestamp markers produce no command; every
\* other line produces exactly one command, in input order: the line without
\* its history index if it has one, the whole line otherwise; an empty text
\* yields two empty sequences.
C7_PerLineMap ==
    pc # "start" =>
        /\ commands = ClaimedCommands(SplitLines(history_text))
        /\ (history_text = "" => commands = <<>> /\ words = <<>>)

-----------------------------------------------------------------------------
(* The classifier on its own: one command, classified once.                *)

\* command words: one that reaches each label alone, an unmatched one, an
\* upper-case one, and one with a keyword of a later group inside
CommandWords ==
    {"ls", "rm ", "vi", "git ", "apt", "top", "ping", "python", "java ",
     "rustc", "gcc", "mono", "node ", "gofmt", "ruby ", "php ", "bash ",
     "nasm", "rscript", "perl ", "ghc", "lua ", "dart ", "scala ", "kotlin",
     "swift ", "mysql", "kubectl", "echo", "x", "GIT ", "docker "}

\* arguments, each carrying keywords of its own
ArgWords == {"rm file.txt", "rm tools", "PIP x", "echo"}

RECURSIVE ArgLists(_)
ArgLists(n) ==
    IF n = 0 THEN {""}
    ELSE LET shorter == ArgLists(n - 1)
         IN  shorter \cup {t \o a : t \in shorter, a \in ArgWords}

InitCategorize ==
    /\ pc = "start"
    /\ cmd \in {w \o a : w \in CommandWords, a \in ArgLists(MaxArgs)}
    /\ label = <<>>
    /\ history_text = "" /\ args = NoArgs
    /\ commands = <<>> /\ words = <<>> /\ categories = <<>>
    /\ report = <<>> /\ figure = <<>>
    /\ outcome = "running"
    /\ recommands = <<>> /\ rewords = <<>>

Categorize ==
    /\ pc = "start"
    /\ label' = <<categorize_command(cmd)>>
    /\ pc' = "categorized"
    /\ UNCHANGED <<history_text, args, commands, words, categories, report,
                   figure, outcome, recommands, rewords, cmd>>

NextCategorize == Categorize

SpecCategorize == InitCategorize /\ [][NextCategorize]_vars

-----------------------------------------------------------------------------
(* Properties of the classifier *)

\* the groups in the order the claim lists them, each with its label
LanguageGroups ==
    [i \in 1..Len(languages) |->
        [label |-> "Lang: " \o languages[i].lang,
         keywords |-> languages[i].keywords]]

Groups ==
    << [label |-> "Navigation", keywords |-> nav_commands],
       [label |-> "File Ops", keywords |-> file_ops],
       [label |-> "Editors", keywords |-> editors],
       [label |-> "Version Ctrl", keywords |-> vcs],
       [label |-> "Pkg Mgmt", keywords |-> package_managers],
       [label |-> "Sys Monitor", keywords |-> system_monitors],
       [label |-> "Network", keywords |-> network_commands] >>
    \o LanguageGroups \o
    << [label |-> "Databases", keywords |-> databases],
       [label |-> "Containers", keywords |-> containers],
       [label |-> "Shell Builtins", keywords |-> shell_builtins] >>

\* group g has a keyword occurring in the lowercased command
Matches(g, substrings) == \E i \in 1..Len(Groups[g].keywords) :
                             Groups[g].keywords[i] \in substrings

\* C1: categorize_command returns exactly one label: that of the first group,
\* in the fixed order, with a keyword occurring in the lowercased command,
\* and Other if and only if no keyword of any group occurs.
C1_FirstMatchWins ==
    pc = "categorized" =>
        LET subs == Substrings(Lower(cmd))
            hits == {g \in 1..Len(Groups) : Matches(g, subs)}
        IN  /\ Len(label) = 1
            /\ \A g \in hits :
                  (\A h \in hits : g <= h) => label[1] = Groups[g].label
            /\ (label[1] = "Other") <=> (hits = {})

\* a command written in upper case in which two groups match, classified
\* as the earlier of the two
C1_Witness ==
    /\ pc = "categorized"
    /\ cmd # Lower(cmd)
    /\ LET subs == Substrings(Lower(cmd))
       IN  \E g, h \in 1..Len(Groups) :
              /\ g < h
              /\ Matches(g, subs) /\ Matches(h, subs)
              /\ label = <<Groups[g].label>>

BothVcsAndFileOps(c) ==
    AnyIn(vcs, Substrings(Lower(c))) /\ AnyIn(file_ops, Substrings(Lower(c)))

\* C10 as stated: every command with both a version-control keyword and a
\* file-operations keyword is classified File Operations.
C10_AlwaysFileOps ==
    (pc = "categorized" /\ BothVcsAndFileOps(cmd)) => label = <<"File Ops">>

\* C10 amended: such a command is classified File Operations unless a
\* Navigation keyword occurs in it too, and then Navigation; never Version
\* Control or a later category.
C10_FileOpsUnlessNavigation ==
    (pc = "categorized" /\ BothVcsAndFileOps(cmd)) =>
        label = IF AnyIn(nav_commands, Substrings(Lower(cmd)))
                THEN <<"Navigation">> ELSE <<"File Ops">>

\* "git rm file.txt" classified File Operations
C10_Witness ==
    /\ pc = "categorized"
    /\ cmd = "git rm file.txt"
    /\ label = <<"File Ops">>

-----------------------------------------------------------------------------
(* main: one run of the program *)

\* raw history lines: a plain command, a numbered one with eleven distinct
\* tokens, a timestamp marker, and a command with no token
HistoryLines == {"ls -la", " 1  rm a b c d e f g h i j", "#17", "-v 42"}

RECURSIVE LineSeqs(_)
LineSeqs(n) ==
    IF n = 0 THEN {<<>>}
    ELSE LET shorter == LineSeqs(n - 1)
         IN  shorter \cup {Append(ls, l) : ls \in shorter, l \in HistoryLines}

\* parser.parse_args(): --top-n (default 15), --json, --quiet, --visualize,
\* --output ("" when not given)
ArgSets ==
    [top_n : {2, 15}, json : BOOLEAN, quiet : BOOLEAN, visualize : BOOLEAN,
     output : {"", "out.png", "out.txt"}]

\* str.endswith(suffix)
EndsWith(str, suffix) ==
    /\ Len(str) >= Len(suffix)
    /\ SubSeq(str, Len(str) - Len(suffix) + 1, Len(str)) = suffix

\* args.output.lower().endswith(('.png', '.jpg', '.jpeg', '.svg', '.pdf'))
ImageExtensions == {".png", ".jpg", ".jpeg", ".svg", ".pdf"}
HasImageExtension(output) == \E e \in ImageExtensions : EndsWith(Lower(output), e)

Init ==
    /\ pc = "start"
    /\ args \in ArgSets
    /\ history_text = ""
    /\ commands = <<>> /\ words = <<>> /\ categories = <<>>
    /\ report = <<>> /\ figure = <<>>
    /\ outcome = "running"
    /\ recommands = <<>> /\ rewords = <<>>
    /\ cmd = "" /\ label = <<>>

\* lines 377-394: the history is read from the file or the shell
LoadHistory ==
    /\ pc = "start"
    /\ \E ls \in LineSeqs(MaxLines) : history_text' = JoinLines(ls)
    /\ pc' = "loaded"
    /\ UNCHANGED <<args, commands, words, categories, report, figure, outcome,
                   recommands, rewords, cmd, label>>

\* lines 381-383 and 392-394: the history cannot be read
LoadFails ==
    /\ pc = "start"
    /\ outcome' = "exit 1"
    /\ pc' = "done"
    /\ UNCHANGED <<history_text, args, commands, words, categories, report,
                   figure, recommands, rewords, cmd, label>>

\* line 396
ProcessHistory ==
    /\ pc = "loaded"
    /\ LET r == process_bash_history(history_text)
       IN  commands' = r[1] /\ words' = r[2]
    /\ pc' = "processed"
    /\ UNCHANGED <<history_text, args, categories, report, figure, outcome,
                   recommands, rewords, cmd, label>>

\* lines 398-400: no commands, the run ends with status 1
NoCommands ==
    /\ pc = "processed"
    /\ commands = <<>>
    /\ outcome' = "exit 1"
    /\ pc' = "done"
    /\ UNCHANGED <<history_text, args, commands, words, categories, report,
                   figure, recommands, rewords, cmd, label>>

\* the run going on without the test of line 398
CategorizeUnchecked ==
    /\ pc = "processed"
    /\ categories' = <<CategoriesOf(commands)>>
    /\ pc' = "statistics"
    /\ UNCHANGED <<history_text, args, commands, words, report, figure,
                   outcome, recommands, rewords, cmd, label>>

\* lines 398 and 406-407: with commands, each is categorized
CategorizeCommands ==
    /\ pc = "processed"
    /\ commands # <<>>
    /\ categories' = <<CategoriesOf(commands)>>
    /\ pc' = "statistics"
    /\ UNCHANGED <<history_text, args, commands, words, report, figure,
                   outcome, recommands, rewords, cmd, label>>

\* lines 410-413: the statistics are printed as JSON, as text, or not at all;
\* an exception of print_statistics is not caught and ends the run
PrintStatistics ==
    /\ pc = "statistics"
    /\ IF args.json \/ ~args.quiet
       THEN LET r == print_statistics(commands, words, CounterOf(categories[1]),
                                      IF args.json THEN "json" ELSE "text")
            IN  IF r.raised # ""
                THEN /\ outcome' = r.raised
                     /\ pc' = "done"
                     /\ report' = report
                ELSE /\ report' = report \o r.printed
                     /\ pc' = "visualize"
                     /\ outcome' = outcome
       ELSE /\ pc' = "visualize"
            /\ UNCHANGED <<report, outcome>>
    /\ UNCHANGED <<history_text, args, commands, words, categories, figure,
                   recommands, rewords, cmd, label>>

\* lines 416 and the end of main: no visualization asked for
NoVisualization ==
    /\ pc = "visualize"
    /\ ~(args.visualize \/ args.output # "")
    /\ outcome' = "exit 0"
    /\ pc' = "done"
    /\ UNCHANGED <<history_text, args, commands, words, categories, report,
                   figure, recommands, rewords, cmd, label>>

\* lines 417-419: an output file that is no image
BadOutputExtension ==
    /\ pc = "visualize"
    /\ args.visualize \/ args.output # ""
    /\ args.output # "" /\ ~HasImageExtension(args.output)
    /\ outcome' = "exit 1"
    /\ pc' = "done"
    /\ UNCHANGED <<history_text, args, commands, words, categories, report,
                   figure, recommands, rewords, cmd, label>>

\* lines 421-422: the figure is drawn
Visualize ==
    /\ pc = "visualize"
    /\ args.visualize \/ args.output # ""
    /\ ~(args.output # "" /\ ~HasImageExtension(args.output))
    /\ figure' = Append(figure, generate_visualizations(commands, words,
                                                        args.output, args.top_n))
    /\ outcome' = "exit 0"
    /\ pc' = "done"
    /\ UNCHANGED <<history_text, args, commands, words, categories, report,
                   recommands, rewords, cmd, label>>

\* lines 423-425: the plotting library raises, the run ends with status 1
VisualizeFails ==
    /\ pc = "visualize"
    /\ args.visualize \/ args.output # ""
    /\ ~(args.output # "" /\ ~HasImageExtension(args.output))
    /\ outcome' = "exit 1"
    /\ pc' = "done"
    /\ UNCHANGED <<history_text, args, commands, words, categories, report,
                   figure, recommands, rewords, cmd, label>>

Next ==
    \/ LoadHistory
    \/ LoadFails
    \/ ProcessHistory
    \/ NoCommands
    \/ CategorizeCommands
    \/ PrintStatistics
    \/ NoVisualization
    \/ BadOutputExtension
    \/ Visualize
    \/ VisualizeFails

Spec == Init /\ [][Next]_vars

-----------------------------------------------------------------------------
(* Properties of the run *)

Min(a, b) == IF a <= b THEN a ELSE b

Distinct(seq) == Cardinality(Range(seq))

FirstIndex(seq, v) ==
    CHOOSE i \in 1..Len(seq) : seq[i] = v /\ \A j \in 1..(i - 1) : seq[j] # v

\* list is a ranking of the values of seq
IsRanked(list, seq) ==
    /\ \A i \in 1..Len(list) :
          list[i][2] >= 1 /\ list[i][2] = Occurrences(seq, list[i][1])
    /\ \A i, j \in 1..Len(list) :
          i < j =>
             /\ list[i][2] >= list[j][2]
             /\ list[i][2] = list[j][2] =>
                   FirstIndex(seq, list[i][1]) < FirstIndex(seq, list[j][1])
    /\ \A v \in Range(seq) \ {list[i][1] : i \in 1..Len(list)} :
          \A i \in 1..Len(list) : Occurrences(seq, v) <= list[i][2]

\* C2: no history leads to an uncontrolled division by zero; a zero total of
\* commands or of tokens is a controlled error.
C2_NoUncontrolledDivision == outcome # "ZeroDivisionError"

\* C3: with an empty history text or no commands the run ends with a
\* non-zero status, and nothing is categorized, printed or drawn.
C3_EmptyInputExits ==
    (pc \notin {"start", "loaded"} /\ commands = <<>>) =>
        /\ pc \in {"processed", "done"}
        /\ categories = <<>> /\ report = <<>> /\ figure = <<>>
        /\ pc = "done" => outcome = "exit 1"

\* a history of timestamp markers only, ended with status 1
C3_Witness ==
    /\ pc = "done"
    /\ history_text # ""
    /\ commands = <<>>
    /\ outcome = "exit 1"

\* C8: every ranked list of commands, tokens and categories is ordered by
\* count descending, equal counts in order of first appearance; each count
\* is the number of occurrences, and no value left out has a larger count
\* than a listed one.
C8_RankedLists ==
    /\ \A i \in 1..Len(report) :
          /\ IsRanked(report[i].top_commands, commands)
          /\ IsRanked(report[i].top_words, words)
          /\ IsRanked(report[i].top_categories, categories[1])
          /\ IsRanked(report[i].all_categories, categories[1])
    /\ \A i \in 1..Len(figure) :
          /\ IsRanked(figure[i].command_counts, commands)
          /\ IsRanked(figure[i].word_counts, words)
          /\ IsRanked(figure[i].category_counts, categories[1])

\* a drawn list of words that leaves words out, starts with a word that is
\* not the first of the input, and holds two words of equal count
C8_Witness ==
    /\ pc = "done"
    /\ Len(figure) = 1
    /\ LET wc == figure[1].word_counts
       IN  /\ Len(wc) = 2
           /\ Len(wc) < Distinct(words)
           /\ wc[1][1] # words[1]
           /\ wc[1][2] = wc[2][2]

\* C9: with top-n = N every top list of commands, of words and of categories
\* that the run outputs has exactly min(N, number of distinct values) entries.
C9_TopNHonoured ==
    /\ \A i \in 1..Len(report) :
          /\ Len(report[i].top_commands) = Min(args.top_n, Distinct(commands))
          /\ Len(report[i].top_words) = Min(args.top_n, Distinct(words))
          /\ Len(report[i].top_categories)
                = Min(args.top_n, Distinct(categories[1]))
    /\ \A i \in 1..Len(figure) :
          /\ Len(figure[i].command_counts) = Min(args.top_n, Distinct(commands))
          /\ Len(figure[i].word_counts) = Min(args.top_n, Distinct(words))
          /\ Len(figure[i].category_counts)
                = Min(args.top_n, Distinct(categories[1]))

=============================================================================
